---- MODULE Spec2Model ----
(***************************************************************************)
(* A model of assignment2019.py: the four GeoJSON functions                *)
(* (geojson_to_shp, shp_to_geojson, make_centroid, merge_polys), the WFS    *)
(* download get_geojson and the handlers of the GUI.                        *)
(*                                                                         *)
(* Python values are records [t |-> <type name>, <payload>]; strings       *)
(* are tuples of characters, floats are modelled by integers (their sums    *)
(* are exact in the ranges used), dictionaries are functions whose DOMAIN   *)
(* is the key set.  A geometry is a set of unit cells on a line: cell i     *)
(* covers [i, i+1]; shapely's shape() yields the cell set, mapping() the    *)
(* GeoJSON geometry with the type the cell set has.                         *)
(***************************************************************************)
EXTENDS Integers, Sequences, FiniteSets, TLC

VARIABLES
    alive,              \* the process is running (quit() ends it)
    call,               \* the call being made: [fn |-> ..., ...arguments]
    result,             \* its outcome: pending, return, raise or quit
    stdout,             \* what print() has written
    shp,                \* the shapefile on disk: [exists |-> FALSE] or [exists, schema, crs, records]
    sidecar,            \* the JSON file shp_to_geojson writes into OUTPUT_DIR
    httpcache,          \* the directory .httpcache exists
    requests,           \* the URLs requested from the server, in order
    log_text,           \* the lines of the GUI's log widget
    first_shp_geojson,  \* MyGUI.first_shp_geojson: [set |-> FALSE] until assigned
    self_merged,        \* MyGUI.merged, likewise
    self_centroid       \* MyGUI.centroid, likewise

vars == <<alive, call, result, stdout, shp, sidecar, httpcache, requests, log_text,
          first_shp_geojson, self_merged, self_centroid>>

----------------------------------------------------------------------------
(* Bounds *)

MaxFeatures == 2

MaxRequests == 2

MaxLog == 8

----------------------------------------------------------------------------
(* Python values *)

PyStr(s) == [t |-> "str", s |-> s]

PyFloat(n) == [t |-> "float", n |-> n]

PyInt(n) == [t |-> "int", n |-> n]

\* True is the integer 1
PyBool(b) == [t |-> "bool", n |-> IF b THEN 1 ELSE 0]

PyNone == [t |-> "NoneType"]

PyList(items) == [t |-> "list", items |-> items]

\* sub occurs in s as a contiguous run (Python's  sub in s  on strings)
Contains(sub, s) ==
    \E i \in 0..(Len(s) - Len(sub)) : SubSeq(s, i + 1, i + Len(sub)) = sub

\* x in c  raises TypeError unless c is a container (and, for a string c, x is a string)
InRaises(x, c) ==
    \/ c.t \notin {"str", "list"}
    \/ c.t = "str" /\ x.t # "str"

\* the value of  x in c  when it does not raise
PyIn(x, c) ==
    IF c.t = "str" THEN Contains(x.s, c.s)
    ELSE \E i \in 1..Len(c.items) : c.items[i] = x

Min(S) == CHOOSE x \in S : \A y \in S : x <= y

Max(S) == CHOOSE x \in S : \A y \in S : x >= y

----------------------------------------------------------------------------
(* Geometry: shapely *)

\* the GeoJSON type of a shapely geometry: one run of cells is a Polygon
GeomType(cells) ==
    IF cells = {} THEN "GeometryCollection"
    ELSE IF \A i \in Min(cells)..Max(cells) : i \in cells THEN "Polygon"
    ELSE "MultiPolygon"

\* shapely.geometry.shape raises on a geometry that is None
ShapeRaises(geometry) == geometry.type = "None"

\* shapely.geometry.shape: GeoJSON geometry -> shapely geometry
shape(geometry) == geometry.cells

\* shapely.geometry.mapping: shapely geometry -> GeoJSON geometry
mapping(cells) == [type |-> GeomType(cells), cells |-> cells]

\* a union that keeps the first geometry only
cascaded_union_first(geoms) == IF Len(geoms) = 0 THEN {} ELSE geoms[1]

\* shapely.ops.cascaded_union of a list of shapely geometries
cascaded_union(geoms) == UNION {geoms[i] : i \in 1..Len(geoms)}

\* geometry.bounds: () for an empty geometry
bounds(cells) == IF cells = {} THEN <<>> ELSE <<Min(cells), Max(cells) + 1>>

----------------------------------------------------------------------------
(* Outcomes of a call *)

Pending == [kind |-> "pending"]

Return(v) == [kind |-> "return", value |-> v]

\* the exception leaves the function and reaches its caller
Raise(e) == [kind |-> "raise", exc |-> e]

\* raise Exception(message)
RaiseMsg(e, message) == [kind |-> "raise", exc |-> e, message |-> message]

\* except Exception as e: print(e); quit()
Quit(e) == [kind |-> "quit", printed |-> e]

----------------------------------------------------------------------------
(* GeoJSON-like arguments *)

\* a Python argument: a dictionary (a function on its keys) or a string
PyDict(d) == [py |-> "dict", v |-> d]

PyPath(s) == [py |-> "str", s |-> s]

\* the exception  obj[key]  raises, or "none"
SubscriptError(obj, key) ==
    IF obj.py # "dict" THEN "TypeError"
    ELSE IF key \notin DOMAIN obj.v THEN "KeyError"
    ELSE "none"

Crs(code) == [type |-> "EPSG", properties |-> [code |-> code]]

Feature(id, geometry, properties) ==
    [type |-> "Feature", id |-> id, geometry |-> geometry, properties |-> properties]

\* the dictionaries with keys among keys and, under key k, a value of vals[k]
Dicts(keys, vals) ==
    UNION {{p \in [S -> UNION {vals[k] : k \in keys}] : \A k \in S : p[k] \in vals[k]} :
           S \in SUBSET keys}

\* the choices of a geometry and a property dictionary for each of n features
FeatureChoices(n, geoms, props) == [1..n -> geoms \X props]

\* the feature list of a choice; the feature at position i has id i
FeatureList(gp) == [i \in DOMAIN gp |-> Feature(i, gp[i][1], gp[i][2])]

----------------------------------------------------------------------------
(* merge_polys *)

\* line 179: the test of one feature raises (the value under filter_key is no
\* container), or shape() of a matching feature raises
MatchRaises(feature, filter_key, filter_value) ==
    /\ filter_key \in DOMAIN feature.properties
    /\ \/ InRaises(filter_value, feature.properties[filter_key])
       \/ /\ PyIn(filter_value, feature.properties[filter_key])
          /\ ShapeRaises(feature.geometry)

\* the exception of the first feature whose test or shape() raises
MatchError(features, filter_key, filter_value) ==
    LET i == Min({j \in 1..Len(features) :
                    MatchRaises(features[j], filter_key, filter_value)})
    IN  IF InRaises(filter_value, features[i].properties[filter_key])
        THEN "TypeError" ELSE "AttributeError"

\* a filter test that asks for the value itself
MatchesEqual(feature, filter_key, filter_value) ==
    /\ filter_key \in DOMAIN feature.properties
    /\ feature.properties[filter_key] = filter_value

\* line 179: the filter test of one feature
Matches(feature, filter_key, filter_value) ==
    /\ filter_key \in DOMAIN feature.properties
    /\ PyIn(filter_value, feature.properties[filter_key])

\* lines 195-199 for one property k, v of a matched feature; acc is
\* [err, p]: p the merged properties so far
AddFloat(acc, k, v) ==
    IF acc.err \/ v.t # "float" THEN acc
    ELSE IF k \notin DOMAIN acc.p
         THEN [acc EXCEPT !.p = [x \in DOMAIN acc.p \cup {k} |->
                                    IF x = k THEN v ELSE acc.p[x]]]
    ELSE IF acc.p[k].t \notin {"float", "int", "bool"}
         THEN [acc EXCEPT !.err = TRUE]
    ELSE [acc EXCEPT !.p[k] = PyFloat(acc.p[k].n + v.n)]

\* lines 194-199: the properties of one feature, key by key
RECURSIVE AddFeatureTotals(_, _, _)
AddFeatureTotals(acc, properties, keys) ==
    IF keys = {} THEN acc
    ELSE LET k == CHOOSE x \in keys : TRUE IN
         AddFeatureTotals(AddFloat(acc, k, properties[k]), properties, keys \ {k})

\* lines 193-199: the matched features, in order
RECURSIVE AddTotals(_, _, _)
AddTotals(acc, my_features, i) ==
    IF i > Len(my_features) THEN acc
    ELSE AddTotals(AddFeatureTotals(acc, my_features[i].properties,
                                    DOMAIN my_features[i].properties),
                   my_features, i + 1)

\* lines 175-217: the body of the try block
MergeTry(geojson, filter_key, filter_value) ==
    IF SubscriptError(geojson, "features") # "none"
    THEN Quit(SubscriptError(geojson, "features"))
    ELSE
    LET features == geojson.v["features"]
        my_features == SelectSeq(features, LAMBDA f : Matches(f, filter_key, filter_value))
        my_geometries == [i \in 1..Len(my_features) |-> shape(my_features[i].geometry)]
        merged_geometry == cascaded_union(my_geometries)
        start == [err |-> FALSE, p |-> [k \in {filter_key} |-> filter_value]]
        merged_properties == AddTotals(start, my_features, 1)
        merged_feature == [type |-> "feature", id |-> 0,
                           geometry |-> mapping(merged_geometry),
                           properties |-> merged_properties.p]
    IN  IF \E i \in 1..Len(features) : MatchRaises(features[i], filter_key, filter_value)
        THEN Quit(MatchError(features, filter_key, filter_value))
        ELSE IF merged_properties.err THEN Quit("TypeError")
        ELSE Return([type |-> "FeatureCollection",
                     features |-> <<merged_feature>>,
                     crs |-> geojson.v["crs"],
                     bbox |-> bounds(merged_geometry)])

\* lines 156-217; line 173 reads geojson["crs"] before the try block
merge_polys(geojson, filter_key, filter_value) ==
    IF SubscriptError(geojson, "crs") # "none"
    THEN Raise(SubscriptError(geojson, "crs"))
    ELSE MergeTry(geojson, filter_key, filter_value)

----------------------------------------------------------------------------
(* The process *)

NoFile == [exists |-> FALSE]

\* line 14
OUTPUT_DIR == ".cache"

\* a path: its directory and its file name, split at the dots
Path(dir, name) == [dir |-> dir, name |-> name]

\* the one dataset on disk is at this path
ShpPath == Path(OUTPUT_DIR, <<"merged", "shp">>)

\* no readable dataset is at this path
OtherPath == Path("data", <<"uss", "json">>)

NoAttr == [set |-> FALSE]

\* a call made directly: its outcome is recorded, print() reaches stdout and
\* quit() ends the process
Finish(outcome) ==
    /\ result' = outcome
    /\ alive' = (outcome.kind # "quit")
    /\ stdout' = IF outcome.kind = "quit" THEN Append(stdout, outcome.printed) ELSE stdout

\* the state in which the call c is about to be made, file being on disk
StartOn(c, file) ==
    /\ alive = TRUE
    /\ call = c
    /\ result = Pending
    /\ stdout = <<>>
    /\ shp = file
    /\ sidecar = NoFile
    /\ httpcache = FALSE
    /\ requests = <<>>
    /\ log_text = <<>>
    /\ first_shp_geojson = NoAttr
    /\ self_merged = NoAttr
    /\ self_centroid = NoAttr

Start(c) == StartOn(c, NoFile)

Calling(fn) == alive /\ call.fn = fn /\ result.kind = "pending"

----------------------------------------------------------------------------
(* Inputs of merge_polys *)

Polygon(cells) == [type |-> "Polygon", cells |-> cells]

MultiPolygon(cells) == [type |-> "MultiPolygon", cells |-> cells]

NoGeometry == [type |-> "None", cells |-> {}]

Keys == {"name", "pop"}

MergeGeoms == {MultiPolygon({1}), Polygon({3}), NoGeometry}

MergeVals ==
    [name |-> {PyStr(<<"a">>), PyStr(<<"a", "b">>), PyFloat(1)},
     pop |-> {PyFloat(1), PyInt(2)}]

FilterKeys == {"name", "pop", ""}

FilterValues == {PyStr(<<>>), PyStr(<<"a">>), PyStr(<<"b">>)}

Collection(features) ==
    PyDict([type |-> "FeatureCollection", features |-> features, crs |-> Crs(4326),
            bbox |-> <<>>])

\* arguments that are no feature collection with a 'crs' entry
Malformed ==
    {PyPath("data/uss.json"),
     PyDict([type |-> "FeatureCollection", features |-> <<>>]),
     PyDict([type |-> "FeatureCollection", crs |-> Crs(4326)])}

MergeCall(g, k, v) ==
    [fn |-> "merge_polys", geojson |-> g, filter_key |-> k, filter_value |-> v]

InitMerge ==
    \E k \in FilterKeys, v \in FilterValues :
        \/ \E g \in Malformed : Start(MergeCall(g, k, v))
        \/ \E n \in 0..MaxFeatures :
            \E gp \in FeatureChoices(n, MergeGeoms, Dicts(Keys, MergeVals)) :
                Start(MergeCall(Collection(FeatureList(gp)), k, v))

MergePolys ==
    /\ Calling("merge_polys")
    /\ Finish(merge_polys(call.geojson, call.filter_key, call.filter_value))
    /\ UNCHANGED <<call, shp, sidecar, httpcache, requests, log_text, first_shp_geojson,
                 self_merged, self_centroid>>

SpecMerge == InitMerge /\ [][MergePolys]_vars

\* Inputs of merge_polys that show which features were selected: the feature at
\* position i covers the cell 2i and no other, and the values under a key
\* include lists, numbers and None

SelectKeys == {"name", ""}

SelectVals ==
    [k \in SelectKeys |->
        IF k = "name"
        THEN {PyStr(<<"a">>), PyStr(<<"a", "b">>), PyFloat(1), PyNone,
              PyList(<<PyStr(<<"a">>)>>)}
        ELSE {PyStr(<<"a">>), PyFloat(1)}]

SelectFeatures(ps) == [i \in DOMAIN ps |-> Feature(i, Polygon({2 * i}), ps[i])]

InitSelect ==
    \E k \in FilterKeys, v \in FilterValues, n \in 0..MaxFeatures :
        \E ps \in [1..n -> Dicts(SelectKeys, SelectVals)] :
            Start(MergeCall(Collection(SelectFeatures(ps)), k, v))

SpecSelect == InitSelect /\ [][MergePolys]_vars

----------------------------------------------------------------------------
(* geojson_to_shp *)

SchemaTypes == {"str", "int", "float"}

\* a schema that records every property of the first feature
SchemaOfAll(properties) == [k \in DOMAIN properties |-> properties[k].t]

\* lines 45-49: my_schema, from the properties of the first feature
Schema(properties) ==
    [k \in {x \in DOMAIN properties : properties[x].t \in SchemaTypes} |-> properties[k].t]

\* an outgoing feature that carries every property
OutgoingAll(feature, my_schema) ==
    [type |-> "Feature", id |-> feature.id, geometry |-> feature.geometry,
     properties |-> feature.properties]

\* lines 60-65: the outgoing feature, its properties those whose key is in my_schema
Outgoing(feature, my_schema) ==
    [type |-> "Feature", id |-> feature.id, geometry |-> feature.geometry,
     properties |-> [k \in DOMAIN feature.properties \cap DOMAIN my_schema |->
                        feature.properties[k]]]

\* a coordinate reference system that is EPSG:4326 whatever the code
from_epsg_default(code) == [init |-> <<"epsg", 4326>>]

\* fiona.crs.from_epsg: {'init': 'epsg:<code>'}, the text split at the colon
from_epsg(code) == [init |-> <<"epsg", code>>]

\* lines 35-71.  openOk: fiona.open succeeds; nWritten: the number of calls of
\* fh.write that succeed before one raises (the library may reject a record).
\* Yields the outcome and the shapefile left on disk.
geojson_to_shp(geojson, old, openOk, nWritten) ==
    IF SubscriptError(geojson, "crs") # "none"
    THEN [outcome |-> Quit(SubscriptError(geojson, "crs")), file |-> old]
    ELSE IF SubscriptError(geojson, "features") # "none"
    THEN [outcome |-> Quit("KeyError"), file |-> old]
    ELSE IF Len(geojson.v["features"]) = 0
    THEN [outcome |-> Quit("IndexError"), file |-> old]
    ELSE
    LET features == geojson.v["features"]
        crs_code == geojson.v["crs"].properties.code
        my_schema == Schema(features[1].properties)
        written == [i \in 1..Min({nWritten, Len(features)}) |->
                        Outgoing(features[i], my_schema)]
        file == [exists |-> TRUE,
                 schema |-> [geometry |-> features[1].geometry.type,
                             properties |-> my_schema],
                 crs |-> from_epsg(crs_code),
                 records |-> written]
    IN  IF ShapeRaises(features[1].geometry)
        THEN [outcome |-> Quit("TypeError"), file |-> old]
        ELSE IF ~openOk
        THEN [outcome |-> Quit("DriverError"), file |-> old]
        ELSE IF nWritten < Len(features)
        THEN [outcome |-> Quit("ValueError"), file |-> file]
        ELSE [outcome |-> Return(PyNone), file |-> file]

ShpGeoms == {Polygon({1}), MultiPolygon({1, 3}), NoGeometry}

ShpVals ==
    [name |-> {PyStr(<<"a">>), PyNone, PyInt(1)},
     pop |-> {PyFloat(1), PyBool(TRUE), PyList(<<>>)}]

ShpCall(g) == [fn |-> "geojson_to_shp", geojson |-> g, shapefile |-> ShpPath]

InitShp ==
    \/ \E g \in Malformed : Start(ShpCall(g))
    \/ \E n \in 0..MaxFeatures :
        \E gp \in FeatureChoices(n, ShpGeoms, Dicts(Keys, ShpVals)) :
            Start(ShpCall(Collection(FeatureList(gp))))

GeojsonToShp ==
    /\ Calling("geojson_to_shp")
    /\ \E openOk \in BOOLEAN, nWritten \in 0..MaxFeatures :
        LET r == geojson_to_shp(call.geojson, shp, openOk, nWritten) IN
        /\ Finish(r.outcome)
        /\ shp' = r.file
    /\ UNCHANGED <<call, sidecar, httpcache, requests, log_text, first_shp_geojson,
                 self_merged, self_centroid>>

SpecShp == InitShp /\ [][GeojsonToShp]_vars

----------------------------------------------------------------------------
(* make_centroid *)

RECURSIVE Gcd(_, _)
Gcd(a, b) == IF b = 0 THEN a ELSE Gcd(b, a % b)

\* the fraction n/d in lowest terms
Frac(n, d) == <<n \div Gcd(n, d), d \div Gcd(n, d)>>

RECURSIVE SumOf(_)
SumOf(S) == IF S = {} THEN 0 ELSE LET x == CHOOSE y \in S : TRUE IN x + SumOf(S \ {x})

\* geometry.centroid of a non-empty geometry: cell i has its centre at i + 1/2,
\* and every cell has its centre at height 1/2
centroid(cells) ==
    [x |-> Frac(SumOf({2 * i + 1 : i \in cells}), 2 * Cardinality(cells)),
     y |-> Frac(1, 2)]

\* shapely.geometry.mapping of a point
mapping_point(point) == [type |-> "Point", coordinates |-> <<point.x, point.y>>]

\* lines 122-154.  geocoded: what my_geocoder.geocode_location does, raise or
\* return a result with a display name
make_centroid(geojson, geocoded) ==
    IF SubscriptError(geojson, "crs") # "none"
    THEN Quit(SubscriptError(geojson, "crs"))
    ELSE IF SubscriptError(geojson, "features") # "none"
    THEN Quit("KeyError")
    ELSE IF Len(geojson.v["features"]) = 0
    THEN Quit("IndexError")
    ELSE IF ShapeRaises(geojson.v["features"][1].geometry)
    THEN Quit("AttributeError")
    ELSE
    LET centroid_feature == shape(geojson.v["features"][1].geometry)
        centroid_point == centroid(centroid_feature)
        feature == [type |-> "feature", id |-> 0,
                    geometry |-> mapping_point(centroid_point),
                    properties |-> [address |-> PyStr(geocoded.display_name)]]
    IN  IF centroid_feature = {}
        THEN Quit("IndexError")
        ELSE IF ~geocoded.ok
        THEN Quit("AttributeError")
        ELSE Return([type |-> "FeatureCollection",
                     features |-> <<feature>>,
                     crs |-> geojson.v["crs"],
                     bbox |-> <<centroid_point.x, centroid_point.y>>])

\* the geocoder raises, or answers with a display name
Geocoded == {[ok |-> FALSE], [ok |-> TRUE, display_name |-> <<"D">>]}

CentroidGeoms ==
    {Polygon({1}), Polygon({1, 2}), Polygon({3}), MultiPolygon({1, 3}), NoGeometry}

CentroidVals == [name |-> {PyStr(<<"a">>)}, pop |-> {PyFloat(1)}]

CentroidCall(g) == [fn |-> "make_centroid", geojson |-> g]

InitCentroid ==
    \/ \E g \in Malformed : Start(CentroidCall(g))
    \/ \E n \in 0..MaxFeatures :
        \E gp \in FeatureChoices(n, CentroidGeoms, Dicts({"name"}, CentroidVals)) :
            Start(CentroidCall(Collection(FeatureList(gp))))

MakeCentroid ==
    /\ Calling("make_centroid")
    /\ \E geocoded \in Geocoded : Finish(make_centroid(call.geojson, geocoded))
    /\ UNCHANGED <<call, shp, sidecar, httpcache, requests, log_text, first_shp_geojson,
                 self_merged, self_centroid>>

SpecCentroid == InitCentroid /\ [][MakeCentroid]_vars

----------------------------------------------------------------------------
(* shp_to_geojson *)

\* "{}".format(n) for 0 <= n <= 9
Digit(n) == <<"0", "1", "2", "3", "4", "5", "6", "7", "8", "9">>[n + 1]

\* what a field of the given type yields after v was written to it: None stays
\* None, a number written to a text field is its text ("%.16g" for a float), a
\* number written to a field of the other numeric type is converted, and a text
\* that is no number leaves 0 in a numeric field.  (No field takes a list.)
FieldValue(type, v) ==
    CASE v.t = "NoneType" -> PyNone
      [] v.t = "str" /\ type = "str" -> v
      [] v.t = "str" /\ type = "int" -> PyInt(0)
      [] v.t = "str" /\ type = "float" -> PyFloat(0)
      [] v.t \in {"int", "bool", "float"} /\ type = "str" -> PyStr(<<Digit(v.n)>>)
      [] v.t \in {"int", "bool", "float"} /\ type = "int" -> PyInt(v.n)
      [] v.t \in {"int", "bool", "float"} /\ type = "float" -> PyFloat(v.n)

\* the geometry a shapefile yields: a polygon shape of one part is a Polygon, of
\* several parts a MultiPolygon, whatever it was written as (the parts of a
\* geometry are its runs of cells)
ReadGeometry(geometry) ==
    IF geometry.type = "None" THEN geometry ELSE mapping(geometry.cells)

\* lines 94-97: a record as fiona yields it: its id is its position in the file
\* (from 0) and it has a value, possibly None, under every key of the schema
ReadFeature(file, i) ==
    [type |-> "Feature", id |-> i - 1, geometry |-> ReadGeometry(file.records[i].geometry),
     properties |-> [k \in DOMAIN file.schema.properties |->
                        IF k \in DOMAIN file.records[i].properties
                        THEN FieldValue(file.schema.properties[k],
                                        file.records[i].properties[k])
                        ELSE PyNone]]

\* lines 84-111.  file: what is on disk at the path; sidecarOk: the JSON file in
\* OUTPUT_DIR can be written.  Yields the outcome and the JSON file.
shp_to_geojson(shapefile, file, old, sidecarOk) ==
    IF ~file.exists
    THEN [outcome |-> Quit("DriverError"), json |-> old]
    ELSE
    LET geojson == [type |-> "FeatureCollection",
                    features |-> [i \in 1..Len(file.records) |-> ReadFeature(file, i)],
                    crs |-> Crs(file.crs.init[2]),
                    bbox |-> bounds(UNION {file.records[i].geometry.cells :
                                            i \in 1..Len(file.records)})]
    IN  IF Len(shapefile.name) < 2
        THEN [outcome |-> Quit("IndexError"), json |-> old]
        ELSE IF ~sidecarOk
        THEN [outcome |-> Quit("FileNotFoundError"), json |-> old]
        ELSE [outcome |-> Return(geojson),
              json |-> [exists |-> TRUE,
                        path |-> Path(OUTPUT_DIR,
                                      <<shapefile.name[Len(shapefile.name) - 1], "json">>),
                        content |-> geojson]]

\* what fiona.open finds at a path
FileAt(path) == IF path = ShpPath THEN shp ELSE NoFile

DiskVals == [name |-> {PyStr(<<"a">>)}, pop |-> {PyFloat(1)}]

\* the datasets geojson_to_shp can have left on disk
Datasets(n) ==
    {NoFile} \cup
    {geojson_to_shp(Collection(FeatureList(gp)), NoFile, TRUE, nWritten).file :
        gp \in UNION {FeatureChoices(m, {Polygon({1})}, Dicts(Keys, DiskVals)) : m \in 0..n},
        nWritten \in 0..n}

ReadCalls == {[fn |-> "shp_to_geojson", shapefile |-> p] : p \in {ShpPath, OtherPath}}

InitRead == \E c \in ReadCalls, file \in Datasets(MaxFeatures) : StartOn(c, file)

ShpToGeojson ==
    /\ Calling("shp_to_geojson")
    /\ \E sidecarOk \in BOOLEAN :
        LET r == shp_to_geojson(call.shapefile, FileAt(call.shapefile), sidecar, sidecarOk) IN
        /\ Finish(r.outcome)
        /\ sidecar' = r.json
    /\ UNCHANGED <<call, shp, httpcache, requests, log_text, first_shp_geojson,
                 self_merged, self_centroid>>

----------------------------------------------------------------------------
(* geojson_to_shp, then shp_to_geojson of the file written *)

RoundTripGeoms == {Polygon({1}), MultiPolygon({1}), MultiPolygon({1, 3})}

RoundTripVals ==
    [name |-> {PyStr(<<"a">>), PyInt(1), PyNone},
     pop |-> {PyFloat(1), PyInt(2)}]

RoundTripCodes == {4326, 29902}

CollectionIn(features, code) ==
    PyDict([type |-> "FeatureCollection", features |-> features, crs |-> Crs(code),
            bbox |-> <<>>])

InitRoundTrip ==
    \E code \in RoundTripCodes, n \in 0..MaxFeatures :
        \E gp \in FeatureChoices(n, RoundTripGeoms, Dicts(Keys, RoundTripVals)) :
            Start(ShpCall(CollectionIn(FeatureList(gp), code)))

\* geojson_to_shp has returned; shp_to_geojson is called on the same path
ReadBack ==
    /\ alive
    /\ call.fn = "geojson_to_shp"
    /\ result.kind = "return"
    /\ \E sidecarOk \in BOOLEAN :
        LET r == shp_to_geojson(call.shapefile, FileAt(call.shapefile), sidecar, sidecarOk) IN
        /\ call' = [fn |-> "shp_to_geojson", shapefile |-> call.shapefile,
                    written |-> call.geojson]
        /\ Finish(r.outcome)
        /\ sidecar' = r.json
    /\ UNCHANGED <<shp, httpcache, requests, log_text, first_shp_geojson, self_merged,
                   self_centroid>>

NextRoundTrip == GeojsonToShp \/ ReadBack

SpecRoundTrip == InitRoundTrip /\ [][NextRoundTrip]_vars

----------------------------------------------------------------------------
(* The four functions, called directly *)

Init == InitMerge \/ InitShp \/ InitRead \/ InitCentroid

Next == MergePolys \/ GeojsonToShp \/ ShpToGeojson \/ MakeCentroid

Spec == Init /\ [][Next]_vars

----------------------------------------------------------------------------
(* MyGUI.get_geojson *)

\* the check of the required parameters, with the one of 'layer' left out
CheckHostOnly(params) ==
    IF "host" \notin DOMAIN params THEN "ValueError" ELSE "none"

\* lines 359-362
CheckParams(params) ==
    IF "host" \notin DOMAIN params THEN "ValueError"
    ELSE IF "layer" \notin DOMAIN params THEN "ValueError"
    ELSE "none"

\* key in params and params[key], for a key that holds a string
TruthyStr(params, key) == key \in DOMAIN params /\ params[key] # ""

\* key in params and params[key], for a key that holds a list
TruthyList(params, key) == key \in DOMAIN params /\ params[key] # <<>>

\* "{}".format(n) for the SRS codes used
Format(n) == IF n = 4326 THEN "4326" ELSE "0"

\* lines 363-366
SrsText(params) ==
    IF "srs_code" \in DOMAIN params /\ params["srs_code"] # 0
    THEN <<"&srsName=epsg:", Format(params["srs_code"])>>
    ELSE <<>>

RECURSIVE ItemString(_, _)
ItemString(items, i) ==
    IF i > Len(items) THEN <<>> ELSE <<items[i], ",">> \o ItemString(items, i + 1)

\* lines 367-375
PropertyText(params) ==
    IF TruthyList(params, "properties")
    THEN <<"&PROPERTYNAME=">> \o ItemString(params["properties"], 1)
            \o (IF TruthyStr(params, "geom_field") THEN <<params["geom_field"]>> ELSE <<>>)
    ELSE <<>>

RECURSIVE OrFilters(_, _, _)
OrFilters(filter_property, filter_values, i) ==
    IF i > Len(filter_values) THEN <<>>
    ELSE <<"OR ", filter_property, " LIKE '%", filter_values[i], "%'">>
            \o OrFilters(filter_property, filter_values, i + 1)

\* line 376 raises: filter_property is set and there is no 'filter_values' key
FilterRaises(params) ==
    TruthyStr(params, "filter_property") /\ "filter_values" \notin DOMAIN params

\* lines 376-385; quote(...) stands for urllib.parse.quote of the text between
FilterText(params) ==
    IF TruthyStr(params, "filter_property") /\ params["filter_values"] # <<>>
    THEN <<"&CQL_FILTER=", "quote(", params["filter_property"], " LIKE '%",
           params["filter_values"][1], "%'">>
            \o OrFilters(params["filter_property"], params["filter_values"], 2)
            \o <<")">>
    ELSE <<>>

\* lines 387-394
Url(params) ==
    <<"http://", params["host"], "/geoserver/ows?", "service=WFS&version=1.0.0&",
      "request=GetFeature&", "typeName=", params["layer"], "&", "outputFormat=json">>
        \o SrsText(params) \o PropertyText(params) \o FilterText(params)

\* response[:5] == "<?xml"
StartsWithXml(body) == body.form \in {"xml", "badxml"}

\* lines 420-422: the texts of the child elements, concatenated; acc is [err, text]
RECURSIVE XmlError(_, _, _)
XmlError(acc, children, i) ==
    IF i > Len(children) THEN acc
    ELSE IF children[i].t # "str" THEN [acc EXCEPT !.err = TRUE]
    ELSE XmlError([acc EXCEPT !.text = acc.text \o children[i].s], children, i + 1)

\* a handler that catches every exception
CaughtAlways(exc) == TRUE

\* line 427: except httplib2.HttpLib2Error
Caught(exc) == exc = "HttpLib2Error"

\* lines 408-428: what the try block does with the server's reply
Respond(reply) ==
    IF reply.net = "error" THEN RaiseMsg("HttpLib2Error", <<>>)
    ELSE IF reply.body.form = "undecodable" THEN RaiseMsg("UnicodeDecodeError", <<>>)
    ELSE IF StartsWithXml(reply.body)
    THEN IF reply.body.form = "badxml" THEN RaiseMsg("ParseError", <<>>)
         ELSE LET xml_error == XmlError([err |-> FALSE, text |-> <<>>],
                                        reply.body.children, 1)
              IN  IF xml_error.err THEN RaiseMsg("TypeError", <<>>)
                  ELSE RaiseMsg("Exception", xml_error.text)
    ELSE IF reply.body.form = "json" THEN Return(reply.body.value)
    ELSE RaiseMsg("JSONDecodeError", <<>>)

\* lines 346-428.  Yields the outcome, the URL requested (if any), whether
\* .httpcache exists afterwards and what was printed.
get_geojson(params, reply, cache) ==
    IF CheckParams(params) # "none"
    THEN [outcome |-> RaiseMsg(CheckParams(params), <<"required">>), url |-> <<>>,
          cache |-> cache, printed |-> <<>>]
    ELSE IF FilterRaises(params) \/ "layer" \notin DOMAIN params
    THEN [outcome |-> RaiseMsg("KeyError", <<>>), url |-> <<>>, cache |-> cache,
          printed |-> <<>>]
    ELSE LET r == Respond(reply) IN
         IF r.kind = "raise" /\ Caught(r.exc)
         THEN [outcome |-> Return(PyNone), url |-> <<Url(params)>>, cache |-> TRUE,
               printed |-> <<r.exc>>]
         ELSE [outcome |-> r, url |-> <<Url(params)>>, cache |-> TRUE, printed |-> <<>>]

Host == "mf2.dit.ie:8080"

Layer == "topp:states"

ParamsSet ==
    {[layer |-> Layer],
     [host |-> Host],
     [layer |-> Layer, filter_property |-> "STATE_NAME"],
     [host |-> Host, layer |-> Layer],
     [host |-> Host, layer |-> Layer, srs_code |-> 4326],
     [host |-> Host, layer |-> Layer, srs_code |-> 0],
     [host |-> Host, layer |-> Layer, properties |-> <<"STATE_NAME">>],
     [host |-> Host, layer |-> Layer, properties |-> <<"STATE_NAME">>,
      geom_field |-> "the_geom"],
     [host |-> Host, layer |-> Layer, filter_property |-> "STATE_NAME"],
     [host |-> Host, layer |-> Layer, filter_property |-> "STATE_NAME",
      filter_values |-> <<>>],
     [host |-> Host, layer |-> Layer, filter_property |-> "STATE_NAME",
      filter_values |-> <<"Cork", "Kerry">>]}

Bodies ==
    {[form |-> "undecodable"], [form |-> "badxml"], [form |-> "other"],
     [form |-> "json", value |-> Collection(<<>>)],
     [form |-> "xml", children |-> <<>>],
     [form |-> "xml", children |-> <<PyStr(<<"a">>), PyStr(<<"b">>)>>],
     [form |-> "xml", children |-> <<PyStr(<<"a">>), PyNone>>]}

Replies == {[net |-> "error"]} \cup {[net |-> "ok", body |-> b] : b \in Bodies}

\* the GUI is up and no handler has run
InitHttp == Start([fn |-> "mainloop"])

GetGeojson ==
    /\ alive
    /\ call.fn \in {"mainloop", "get_geojson"}
    /\ Len(requests) < MaxRequests
    /\ \E params \in ParamsSet, reply \in Replies :
        LET r == get_geojson(params, reply, httpcache) IN
        /\ call' = [fn |-> "get_geojson", params |-> params,
                    reply |-> IF r.url = <<>> THEN [net |-> "none"] ELSE reply]
        /\ result' = r.outcome
        /\ requests' = requests \o r.url
        /\ httpcache' = r.cache
        /\ stdout' = stdout \o r.printed
    /\ UNCHANGED <<alive, shp, sidecar, log_text, first_shp_geojson,
                 self_merged, self_centroid>>

SpecHttp == InitHttp /\ [][GetGeojson]_vars

----------------------------------------------------------------------------
(* MyGUI.get_jsonFile *)

\* the file dialogue was cancelled
NoSelection == Path("", <<>>)

\* "-" * 80
Sep == [text |-> "----"]

Line(text, arg) == [text |-> text, arg |-> arg]

OpsUpload == "Ops there is an error please check the file you are trying upload: {}"

\* the elements of a set, one after the other
RECURSIVE SeqOf(_)
SeqOf(S) == IF S = {} THEN <<>> ELSE LET x == CHOOSE y \in S : TRUE IN <<x>> \o SeqOf(S \ {x})

\* lines 444-445: one line per property key of the first feature
KeyLines(properties) ==
    LET keys == SeqOf(DOMAIN properties) IN
    [i \in 1..Len(keys) |-> Line("... {}", keys[i])]

\* lines 430-452.  quit() inside shp_to_geojson raises SystemExit, which is no
\* Exception: the handler on line 448 does not catch it.  Yields the outcome,
\* the log, the attribute first_shp_geojson and the JSON file.
get_jsonFile(first_json, file, json, sidecarOk, log, attr) ==
    IF first_json = NoSelection
    THEN [outcome |-> Return(PyNone), log |-> log, attr |-> attr, json |-> json]
    ELSE
    LET selected == log \o <<Sep, Line("Geojson selected: {}", first_json)>>
        r == shp_to_geojson(first_json, file, json, sidecarOk)
        geojson == r.outcome.value
        listed == selected \o <<Sep, Line("Feature properties:", "")>>
    IN  IF r.outcome.kind = "quit"
        THEN [outcome |-> r.outcome, log |-> selected, attr |-> attr, json |-> r.json]
        ELSE IF Len(geojson.features) = 0
        THEN [outcome |-> Return(PyNone),
              log |-> listed \o <<Sep, Line(OpsUpload, "IndexError"), Sep>>,
              attr |-> [set |-> TRUE, value |-> geojson], json |-> r.json]
        ELSE [outcome |-> Return(PyNone),
              log |-> listed \o KeyLines(geojson.features[1].properties) \o <<Sep>>,
              attr |-> [set |-> TRUE, value |-> geojson], json |-> r.json]

\* the handlers of MyGUI; "mainloop": none of them has run yet
Handlers ==
    {"mainloop", "get_jsonFile", "get_single_plot", "merge_from_shp", "centroid_plot",
     "extract_points"}

\* the GUI is up, no handler has run, and a dataset or none is on disk
InitGui == \E file \in Datasets(MaxFeatures) : StartOn([fn |-> "mainloop"], file)

GetJsonFile ==
    /\ alive
    /\ call.fn \in Handlers
    /\ Len(log_text) < MaxLog
    /\ \E first_json \in {NoSelection, ShpPath, OtherPath}, sidecarOk \in BOOLEAN :
        LET r == get_jsonFile(first_json, FileAt(first_json), sidecar, sidecarOk,
                              log_text, first_shp_geojson)
        IN  /\ call' = [fn |-> "get_jsonFile", first_json |-> first_json]
            /\ Finish(r.outcome)
            /\ log_text' = r.log
            /\ first_shp_geojson' = r.attr
            /\ sidecar' = r.json
    /\ UNCHANGED <<shp, httpcache, requests, self_merged, self_centroid>>

SpecGui == InitGui /\ [][GetJsonFile]_vars

----------------------------------------------------------------------------
(* The other handlers of MyGUI *)

\* an empty feature collection in the place of the path
Source_collection == Collection(<<>>)

\* line 17
Source_file == PyPath("data/uss.json")

OpsError == "Ops there is an Error: {}"

\* MyGUI.merged_shp_name: __init__ (lines 229-340) does not assign it, nor does
\* any other method
merged_shp_name == NoAttr

\* not v
Falsy(v) ==
    \/ v.t = "NoneType"
    \/ v.t \in {"int", "float", "bool"} /\ v.n = 0
    \/ v.t = "str" /\ v.s = <<>>
    \/ v.t = "list" /\ v.items = <<>>

\* lines 455-467.  plotOk: gp.read_file and the plot succeed
get_single_plot(plotOk, log) ==
    IF plotOk
    THEN [outcome |-> Return(PyNone),
          log |-> log \o <<Line(" Single polygon Successful ploted", "")>>]
    ELSE [outcome |-> Quit("DriverError"), log |-> log]

\* lines 469-489.  source: the argument handed to merge_polys; old, openOk and
\* nWritten as in geojson_to_shp.  The SystemExit of a quit() inside merge_polys
\* or geojson_to_shp passes the handler on line 485.  Yields the outcome, the
\* log, the attribute merged and the shapefile.
merge_from_shp(source, old, openOk, nWritten, log, attr) ==
    LET started == log \o <<Sep>>
        r == merge_polys(source, "", PyStr(<<>>))
        assigned == [set |-> TRUE, value |-> r.value]
        failed(e, a) == [outcome |-> Return(PyNone),
                         log |-> started \o <<Sep, Line(OpsError, e), Sep>>,
                         attr |-> a, file |-> old]
        creating == started \o <<Line("Creating new shapefile: {}/{}.shp",
                                      merged_shp_name.value)>>
        w == geojson_to_shp(PyDict(r.value), old, openOk, nWritten)
    IN  IF r.kind = "quit"
        THEN [outcome |-> r, log |-> started, attr |-> attr, file |-> old]
        ELSE IF r.kind = "raise" THEN failed(r.exc, attr)
        ELSE IF ~merged_shp_name.set THEN failed("AttributeError", assigned)
        ELSE IF w.outcome.kind = "quit"
        THEN [outcome |-> w.outcome, log |-> creating, attr |-> assigned, file |-> w.file]
        ELSE [outcome |-> Return(PyNone),
              log |-> creating \o <<Line("Finished creating new shapefile: {}/{}.shp",
                                         merged_shp_name.value), Sep>>,
              attr |-> assigned, file |-> w.file]

\* lines 491-515.  firstOk: the statements before the try block succeed (their
\* exception reaches the caller); secondOk: those inside it do
centroid_plot(firstOk, secondOk, log) ==
    IF ~firstOk THEN [outcome |-> Raise("DriverError"), log |-> log]
    ELSE IF ~secondOk THEN [outcome |-> Quit("DriverError"), log |-> log]
    ELSE [outcome |-> Return(PyNone),
          log |-> log \o <<Line(" Centroid computed successfully", "")>>]

\* extract_points on its success path
extract_points_found(attr, log) ==
    [outcome |-> Return(PyNone), log |-> log \o <<Sep, Sep>>]

\* lines 518-534.  attr: the attribute centroid of the GUI object
extract_points(attr, log) ==
    LET failed(e) == [outcome |-> Return(PyNone),
                      log |-> log \o <<Sep, Line(OpsError, e), Sep>>]
    IN  IF ~attr.set THEN failed("AttributeError")
        ELSE IF Falsy(attr.value) THEN failed("ValueError")
        ELSE [outcome |-> Return(PyNone), log |-> log \o <<Sep, Sep>>]

\* a handler starts: the GUI is running and has room in its log
Handling == alive /\ call.fn \in Handlers /\ Len(log_text) < MaxLog

GetSinglePlot ==
    /\ Handling
    /\ \E plotOk \in BOOLEAN :
        LET r == get_single_plot(plotOk, log_text) IN
        /\ call' = [fn |-> "get_single_plot"]
        /\ Finish(r.outcome)
        /\ log_text' = r.log
    /\ UNCHANGED <<shp, sidecar, httpcache, requests, first_shp_geojson, self_merged,
                   self_centroid>>

MergeFromShp ==
    /\ Handling
    /\ \E openOk \in BOOLEAN, nWritten \in 0..MaxFeatures :
        LET r == merge_from_shp(Source_file, shp, openOk, nWritten, log_text, self_merged)
        IN  /\ call' = [fn |-> "merge_from_shp"]
            /\ Finish(r.outcome)
            /\ log_text' = r.log
            /\ self_merged' = r.attr
            /\ shp' = r.file
    /\ UNCHANGED <<sidecar, httpcache, requests, first_shp_geojson, self_centroid>>

CentroidPlot ==
    /\ Handling
    /\ \E firstOk \in BOOLEAN, secondOk \in BOOLEAN :
        LET r == centroid_plot(firstOk, secondOk, log_text) IN
        /\ call' = [fn |-> "centroid_plot"]
        /\ Finish(r.outcome)
        /\ log_text' = r.log
    /\ UNCHANGED <<shp, sidecar, httpcache, requests, first_shp_geojson, self_merged,
                   self_centroid>>

ExtractPoints ==
    /\ Handling
    /\ LET r == extract_points(self_centroid, log_text) IN
        /\ call' = [fn |-> "extract_points"]
        /\ Finish(r.outcome)
        /\ log_text' = r.log
    /\ UNCHANGED <<shp, sidecar, httpcache, requests, first_shp_geojson, self_merged,
                   self_centroid>>

NextApp == GetJsonFile \/ GetSinglePlot \/ MergeFromShp \/ CentroidPlot \/ ExtractPoints

SpecApp == InitGui /\ [][NextApp]_vars

----------------------------------------------------------------------------
(* Claims about merge_polys *)

MergeReturned == call.fn = "merge_polys" /\ result.kind = "return"

\* the input features of the call
InputFeatures == call.geojson.v["features"]

\* the positions of the input features that match the filter: filter_key is a
\* property key and the string under it contains filter_value
Selected ==
    {i \in 1..Len(InputFeatures) :
        /\ call.filter_key \in DOMAIN InputFeatures[i].properties
        /\ InputFeatures[i].properties[call.filter_key].t = "str"
        /\ Contains(call.filter_value.s, InputFeatures[i].properties[call.filter_key].s)}

\* C1: when merge_polys returns, the result holds exactly one feature, with id 0,
\* whose geometry is the union of the geometries of exactly the input features
\* that match the filter and whose properties map filter_key to filter_value;
\* none of the input features is in the result's features list.
C1_MergedFeature ==
    MergeReturned =>
        LET fs == result.value.features IN
        /\ Len(fs) = 1
        /\ fs[1].id = 0
        /\ fs[1].geometry.cells = UNION {InputFeatures[i].geometry.cells : i \in Selected}
        /\ fs[1].geometry.type = GeomType(fs[1].geometry.cells)
        /\ call.filter_key \in DOMAIN fs[1].properties
        /\ fs[1].properties[call.filter_key] = call.filter_value
        /\ \A i \in 1..Len(InputFeatures) : \A j \in 1..Len(fs) : fs[j] # InputFeatures[i]

\* merge_polys returned the union of two matching features of different geometry
C1_Witness_TwoMerged ==
    /\ MergeReturned
    /\ Cardinality(Selected) = 2
    /\ Cardinality({InputFeatures[i].geometry.cells : i \in Selected}) = 2

\* merge_polys returned with no feature matching the filter
C1_Witness_NoneMatched ==
    /\ MergeReturned
    /\ Len(InputFeatures) > 0
    /\ Selected = {}

\* merge_polys returned with one feature matching and one not
C1_Witness_OneOfTwo ==
    /\ MergeReturned
    /\ Len(InputFeatures) = 2
    /\ Cardinality(Selected) = 1

Numeric(v) == v.t \in {"int", "float"}

\* the sum of the numeric values under key k in the input features at positions
\* i..n that match the filter
RECURSIVE NumericSum(_, _)
NumericSum(k, i) ==
    IF i > Len(InputFeatures) THEN 0
    ELSE (IF /\ i \in Selected
             /\ k \in DOMAIN InputFeatures[i].properties
             /\ Numeric(InputFeatures[i].properties[k])
          THEN InputFeatures[i].properties[k].n ELSE 0) + NumericSum(k, i + 1)

NumericInSelected(k) ==
    \E i \in Selected : /\ k \in DOMAIN InputFeatures[i].properties
                        /\ Numeric(InputFeatures[i].properties[k])

\* C2: the merged feature's property under every key that is numeric (int or
\* float) in some matched feature is the sum of that key's numeric values over
\* the matched features, and a key numeric in no matched feature, other than
\* filter_key, is absent.
C2_NumericTotals ==
    MergeReturned =>
        LET merged == result.value.features[1].properties IN
        \A k \in Keys :
            IF NumericInSelected(k)
            THEN k \in DOMAIN merged /\ Numeric(merged[k]) /\ merged[k].n = NumericSum(k, 1)
            ELSE k # call.filter_key => k \notin DOMAIN merged

----------------------------------------------------------------------------
(* Claims about geojson_to_shp *)

ShpReturned == call.fn = "geojson_to_shp" /\ result.kind = "return"

\* the shapefile was opened for writing by the call
ShpWritten == call.fn = "geojson_to_shp" /\ result.kind # "pending" /\ shp.exists

\* C4: when geojson_to_shp completes without error it has written one record per
\* input feature, in input order, each with the feature's id and geometry and with
\* property keys among the schema keys; the schema keys are exactly the keys of
\* the first feature's properties whose value is a str, int or float.
C4_OneRecordPerFeature ==
    ShpReturned =>
        /\ shp.exists
        /\ Len(shp.records) = Len(InputFeatures)
        /\ \A i \in 1..Len(InputFeatures) :
            /\ shp.records[i].id = InputFeatures[i].id
            /\ shp.records[i].geometry = InputFeatures[i].geometry
            /\ DOMAIN shp.records[i].properties \subseteq DOMAIN shp.schema.properties
        /\ DOMAIN shp.schema.properties =
            {k \in DOMAIN InputFeatures[1].properties :
                InputFeatures[1].properties[k].t \in {"str", "int", "float"}}

\* geojson_to_shp completed for two features, the second with a property whose
\* key is not in the schema
C4_Witness_Dropped ==
    /\ ShpReturned
    /\ Len(InputFeatures) = 2
    /\ \E k \in DOMAIN InputFeatures[2].properties : k \notin DOMAIN shp.schema.properties

\* C5 as stated: every property value written is a str, int or float of the type
\* the schema records for its key.
C5_WrittenTypesMatchSchema ==
    ShpWritten =>
        \A i \in 1..Len(shp.records) : \A k \in DOMAIN shp.records[i].properties :
            /\ k \in DOMAIN shp.schema.properties
            /\ shp.records[i].properties[k].t \in {"str", "int", "float"}
            /\ shp.records[i].properties[k].t = shp.schema.properties[k]

\* C5 as amended: every property written has a key of the schema and is the
\* input feature's value under that key, unchanged; in the first record that
\* value is a str, int or float of the type the schema records.
C5_WrittenValuesUnchanged ==
    ShpWritten =>
        \A i \in 1..Len(shp.records) : \A k \in DOMAIN shp.records[i].properties :
            /\ k \in DOMAIN shp.schema.properties
            /\ k \in DOMAIN InputFeatures[i].properties
            /\ shp.records[i].properties[k] = InputFeatures[i].properties[k]
            /\ i = 1 => /\ shp.records[i].properties[k].t \in {"str", "int", "float"}
                        /\ shp.records[i].properties[k].t = shp.schema.properties[k]

\* a second record was written whose value under a schema key has another type
\* than the schema records
C5_Witness_OtherType ==
    /\ ShpWritten
    /\ Len(shp.records) = 2
    /\ \E k \in DOMAIN shp.records[2].properties :
        shp.records[2].properties[k].t # shp.schema.properties[k]

----------------------------------------------------------------------------
(* Claims about make_centroid *)

CentroidReturned == call.fn = "make_centroid" /\ result.kind = "return"

\* the geometry of the whole input: every feature's cells
WholeInput == UNION {InputFeatures[i].geometry.cells : i \in 1..Len(InputFeatures)}

----------------------------------------------------------------------------
(* Claims about the four functions *)

\* C3: in geojson_to_shp, shp_to_geojson, make_centroid and merge_polys every
\* exception raised during the call is printed and ends the process through
\* quit(): no exception reaches the caller, a malformed argument (no 'crs'
\* entry, no dictionary, an empty features list where the first feature is read)
\* ends the process, and no value is returned after an error.
C3_EveryExceptionQuits ==
    /\ call.fn \in {"geojson_to_shp", "shp_to_geojson", "make_centroid", "merge_polys"}
        => result.kind # "raise"
    /\ (/\ call.fn \in {"geojson_to_shp", "make_centroid", "merge_polys"}
        /\ result.kind # "pending"
        /\ (\/ SubscriptError(call.geojson, "crs") # "none"
            \/ SubscriptError(call.geojson, "features") # "none"))
        => (/\ result.kind = "quit"
            /\ ~alive
            /\ stdout = <<result.printed>>)

----------------------------------------------------------------------------
(* Claims about get_geojson *)

\* C8: a resource already downloaded is not downloaded again: no URL is
\* requested from the server twice.
C8_NoUrlRequestedTwice ==
    \A i, j \in 1..Len(requests) : requests[i] = requests[j] => i = j

MissingRequired(params) == "host" \notin DOMAIN params \/ "layer" \notin DOMAIN params

\* C9: a call of get_geojson whose params have no 'host' key or no 'layer' key
\* raises ValueError, issues no HTTP request and does not create .httpcache; a
\* call that issues a request has both keys, and they are in the URL.
C9_RequiredParams ==
    [][/\ (call'.fn = "get_geojson" /\ MissingRequired(call'.params))
            => /\ result'.kind = "raise" /\ result'.exc = "ValueError"
               /\ requests' = requests
               /\ httpcache' = httpcache
       /\ requests' # requests
            => /\ ~MissingRequired(call'.params)
               /\ requests'[Len(requests')][2] = call'.params["host"]
               /\ requests'[Len(requests')][7] = call'.params["layer"]]_vars

\* get_geojson raised ValueError for params without 'layer' after an earlier
\* call had issued a request
C9_Witness_ValueError ==
    /\ call.fn = "get_geojson"
    /\ "host" \in DOMAIN call.params
    /\ "layer" \notin DOMAIN call.params
    /\ result.kind = "raise"
    /\ Len(requests) = 1

Requested == call.fn = "get_geojson" /\ call.reply.net # "none"

RECURSIVE Concat(_)
Concat(texts) == IF texts = <<>> THEN <<>> ELSE Head(texts).s \o Concat(Tail(texts))

----------------------------------------------------------------------------
(* Claims about get_jsonFile *)

\* C7: when a file is selected and loading it through shp_to_geojson fails (here:
\* no readable dataset is at the path), get_jsonFile appends the message 'Ops
\* there is an error please check the file you are trying upload: ...' to the
\* log and returns with the process running; when the dialogue is cancelled it
\* appends nothing to the log and does not assign first_shp_geojson.
C7_LoadFailureIsLogged ==
    [][call'.fn = "get_jsonFile" =>
        /\ call'.first_json = NoSelection
            => log_text' = log_text /\ first_shp_geojson' = first_shp_geojson
        /\ (call'.first_json # NoSelection /\ ~FileAt(call'.first_json).exists)
            => /\ alive'
               /\ result'.kind = "return"
               /\ Len(log_text') >= 2
               /\ log_text'[Len(log_text') - 1].text = OpsUpload]_vars

----------------------------------------------------------------------------
(* Claims about extract_points and merge_from_shp *)

\* the attributes of the GUI object that a handler assigns
Attributes == <<first_shp_geojson, self_merged, self_centroid>>

\* C11: no handler ever assigns self.centroid, and in every state of the GUI a
\* call of extract_points appends the separator, an 'Ops there is an Error'
\* entry and the separator to the log (never the two separators of the success
\* path), returns with the process running and changes no attribute of the GUI
\* object.
C11_ExtractPointsFails ==
    [][/\ ~self_centroid'.set
       /\ call'.fn = "extract_points" =>
            /\ alive'
            /\ result' = Return(PyNone)
            /\ \E e \in {"AttributeError", "ValueError"} :
                log_text' = log_text \o <<Sep, Line(OpsError, e), Sep>>
            /\ log_text' # log_text \o <<Sep, Sep>>
            /\ UNCHANGED Attributes]_vars

\* extract_points logged its error after get_jsonFile had loaded a dataset
C11_Witness_AfterLoad ==
    /\ call.fn = "extract_points"
    /\ first_shp_geojson.set
    /\ Len(log_text) >= 3
    /\ log_text[Len(log_text) - 1].text = OpsError

CreationEntries ==
    {"Creating new shapefile: {}/{}.shp", "Finished creating new shapefile: {}/{}.shp"}

\* C12: merge_polys raises on the path Source_file before its try block, and
\* every call of merge_from_shp leaves the shapefile as it was, returns with the
\* process running, appends the separator twice, an 'Ops there is an Error'
\* entry and the separator to the log, leaves self.merged unassigned and logs
\* neither 'Creating new shapefile' nor 'Finished creating new shapefile'.
C12_MergeFromShpFails ==
    [][call'.fn = "merge_from_shp" =>
        /\ merge_polys(Source_file, "", PyStr(<<>>)) = Raise("TypeError")
        /\ shp' = shp
        /\ alive'
        /\ result' = Return(PyNone)
        /\ log_text' = log_text \o <<Sep, Sep, Line(OpsError, "TypeError"), Sep>>
        /\ ~self_merged'.set
        /\ \A i \in 1..Len(log_text') : log_text'[i].text \notin CreationEntries]_vars

\* merge_from_shp logged its error with a shapefile on disk
C12_Witness_ShapefileKept ==
    /\ call.fn = "merge_from_shp"
    /\ shp.exists
    /\ Len(log_text) >= 4
    /\ log_text[Len(log_text) - 1].text = OpsError

----------------------------------------------------------------------------
(* Claims about the filter of merge_polys *)

\* the positions of the features in the merged geometry: position i covers cell 2i
SelectedByGeometry ==
    {i \in 1..Len(InputFeatures) : 2 * i \in result.value.features[1].geometry.cells}

HasKey(i) == call.filter_key \in DOMAIN InputFeatures[i].properties

ValueUnderKey(i) == InputFeatures[i].properties[call.filter_key]

\* x is contained in v: a part of a string, an element of a list
ContainedIn(x, v) ==
    \/ v.t = "str" /\ x.t = "str" /\ Contains(x.s, v.s)
    \/ v.t = "list" /\ \E j \in 1..Len(v.items) : v.items[j] = x

NonContainer(v) == v.t \in {"int", "float", "bool", "NoneType"}

\* a feature that has the key holds a number or None under it: the call ends
\* the process
NonContainerQuits ==
    (/\ call.fn = "merge_polys"
     /\ result.kind # "pending"
     /\ \E i \in 1..Len(InputFeatures) : HasKey(i) /\ NonContainer(ValueUnderKey(i)))
        => (result.kind = "quit" /\ ~alive)

\* C13 as stated: merge_polys selects a feature exactly when filter_key is one of
\* its property keys and filter_value is contained in the value under it; an
\* empty filter_value selects every feature that has the key; the filter_key ""
\* selects only features with a property named ""; a number or None under the
\* key in any feature ends the process.
C13_EmptyValueSelectsAll ==
    /\ MergeReturned =>
        \A i \in 1..Len(InputFeatures) :
            /\ i \in SelectedByGeometry <=>
                (HasKey(i) /\ ContainedIn(call.filter_value, ValueUnderKey(i)))
            /\ (call.filter_value = PyStr(<<>>) /\ HasKey(i)) => i \in SelectedByGeometry
            /\ (call.filter_key = "" /\ i \in SelectedByGeometry)
                => "" \in DOMAIN InputFeatures[i].properties
    /\ NonContainerQuits

\* C13 as amended: as stated, except that an empty filter_value selects every
\* feature whose value under the key is a string, and a feature whose value is a
\* list only when the empty string is one of the list's elements.
C13_SelectByContainment ==
    /\ MergeReturned =>
        \A i \in 1..Len(InputFeatures) :
            /\ i \in SelectedByGeometry <=>
                (HasKey(i) /\ ContainedIn(call.filter_value, ValueUnderKey(i)))
            /\ (call.filter_value = PyStr(<<>>) /\ HasKey(i)) =>
                (i \in SelectedByGeometry <=>
                    \/ ValueUnderKey(i).t = "str"
                    \/ \E j \in 1..Len(ValueUnderKey(i).items) :
                        ValueUnderKey(i).items[j] = PyStr(<<>>))
            /\ (call.filter_key = "" /\ i \in SelectedByGeometry)
                => "" \in DOMAIN InputFeatures[i].properties
    /\ NonContainerQuits

\* merge_polys returned for an empty filter_value and two features that have the
\* key, one holding a string (selected) and one a list (not selected)
C13_Witness_ListNotSelected ==
    /\ MergeReturned
    /\ call.filter_value = PyStr(<<>>)
    /\ Len(InputFeatures) = 2
    /\ \A i \in 1..2 : HasKey(i)
    /\ Cardinality(SelectedByGeometry) = 1
    /\ \E i \in 1..2 : ValueUnderKey(i).t = "list"

----------------------------------------------------------------------------
(* Claims about the round trip through a shapefile *)

\* shp_to_geojson has returned the collection read from the file that
\* geojson_to_shp wrote
RoundTripped ==
    call.fn = "shp_to_geojson" /\ "written" \in DOMAIN call /\ result.kind = "return"

\* the features handed to geojson_to_shp
Written == call.written.v["features"]

SchemaKeys == DOMAIN Schema(Written[1].properties)

\* a == b in Python: numbers by their value, whatever their type
PyEq(a, b) ==
    IF a.t \in {"int", "float", "bool"} /\ b.t \in {"int", "float", "bool"}
    THEN a.n = b.n
    ELSE a = b

\* the properties p are the properties q restricted to the schema keys
SameRestricted(p, q) ==
    /\ DOMAIN p = DOMAIN q \cap SchemaKeys
    /\ \A k \in DOMAIN p : PyEq(p[k], q[k])

SameGeometryType ==
    \A i \in 1..Len(Written) : Written[i].geometry.type = Written[1].geometry.type

\* the collection read back is the collection written
SameCollection ==
    LET back == result.value IN
    /\ Len(back.features) = Len(Written)
    /\ back.crs.properties.code = call.written.v["crs"].properties.code
    /\ \A i \in 1..Len(Written) :
        /\ back.features[i].geometry = Written[i].geometry
        /\ SameRestricted(back.features[i].properties, Written[i].properties)

\* shp_to_geojson returns only with its JSON file written; otherwise it ends the
\* process
SidecarOrQuit ==
    (call.fn = "shp_to_geojson" /\ result.kind # "pending") =>
        IF result.kind = "return"
        THEN /\ sidecar.exists
             /\ sidecar.path.dir = OUTPUT_DIR
             /\ sidecar.content = result.value
        ELSE result.kind = "quit" /\ ~alive

NoSinglePart ==
    \A i \in 1..Len(Written) : Written[i].geometry.type = GeomType(Written[i].geometry.cells)

\* every feature has, under every schema key, None or a value of the schema's type
SchemaTyped ==
    \A i \in 1..Len(Written) : \A k \in SchemaKeys :
        /\ k \in DOMAIN Written[i].properties
        /\ Written[i].properties[k].t \in {"NoneType", Schema(Written[1].properties)[k]}

====
